---- MODULE Spec2Model ----
(***************************************************************************)
(* A model of src/app.py: the Flask application that takes an uploaded     *)
(* font, selects the glyphs a preview string or a download needs, builds a *)
(* reduced UFO and hands it to one of three filters.                       *)
(*                                                                         *)
(* Every HTTP request is a process that walks through process_font, one    *)
(* action per block of the function.  Python values are modelled as        *)
(* follows: an Optional value is None (the empty tuple) or Some(x) (a      *)
(* one-element tuple); a str is the sequence of its code points, so that   *)
(* ord(char) is the element itself; a dict is the sequence of its          *)
(* <<key, value>> items in iteration (insertion) order; a glyph name is a  *)
(* string, and the Python None that the code lets into a list of glyph     *)
(* names is the string NoneName.                                           *)
(***************************************************************************)
EXTENDS Integers, Sequences, FiniteSets, TLC

\* Bounds of the model: the longest short preview string, and the largest
\* character map of an uploaded font.
MaxStrLen == 2
MaxCmapLen == 2

\* ---------------------------------------------------------------- values

None == <<>>
Some(x) == <<x>>
IsSome(o) == o # <<>>
Get(o) == o[1]

NoneName == "None"

Range(s) == {s[i] : i \in DOMAIN s}

NoDuplicates(s) == \A i, j \in DOMAIN s : i # j => s[i] # s[j]

\* The orders in which Python may iterate over a set.
Orderings(S) == {s \in [1..Cardinality(S) -> S] : Range(s) = S}

\* A dict as the sequence of its items.
Keys(d) == {d[i][1] : i \in DOMAIN d}

Lookup(d, k) == d[CHOOSE i \in DOMAIN d : d[i][1] = k][2]

\* dict.get(k, default)
DictGet(d, k, default) == IF k \in Keys(d) THEN Lookup(d, k) ELSE default

\* d[k] = v: an existing key keeps its place, a new key goes last.
DictSet(d, k, v) ==
    IF k \in Keys(d)
    THEN [i \in DOMAIN d |-> IF d[i][1] = k THEN <<k, v>> ELSE d[i]]
    ELSE Append(d, <<k, v>>)

\* ------------------------------------------------------ the request space

Requests == {"r1", "r2"}

\* The requests of the specification that serves one request.
Solo == {"r1"}

ValidFilters == {"rasterizer", "rotorizer", "extruder"}

\* The <filter_identifier> of the route is any string.
FilterIdentifiers == ValidFilters \cup {"pixelizer"}

\* Code points of the character maps: both ends of the download range and
\* their outer neighbours.
Codepoints == {31, 32, 126, 127}

\* Characters of the preview strings; a font may or may not map each.
PreviewChars == {32, 127}

Glyphs == {"g1", "g2", "g3"}

\* Glyphs a character map points to (g3 is reached as a component only).
EncodedGlyphs == {"g1", "g2"}

\* tt_font.getGlyphOrder()
GlyphOrder == <<"g1", "g2", "g3">>

\* tt_font["hmtx"].metrics[glyph_name][0]
hmtx == [g \in Glyphs |-> IF g = "g1" THEN 500 ELSE 600]

CmapsOfLen(n) ==
    {c \in [1..n -> Codepoints \X EncodedGlyphs] :
        \A i, j \in 1..n : i # j => c[i][1] # c[j][1]}

Cmaps == UNION {CmapsOfLen(n) : n \in 0..MaxCmapLen}

NoComponents == [g \in Glyphs |-> {}]

\* g2 is a composite of g1.
OneComponent == [g \in Glyphs |-> IF g = "g2" THEN {"g1"} ELSE {}]

\* g2 is a composite of g3, which is a composite of g1.
NestedComponents ==
    [g \in Glyphs |-> IF g = "g2" THEN {"g3"} ELSE IF g = "g3" THEN {"g1"} ELSE {}]

\* The outline tables of a font and, for glyf, its composite glyphs.
Shapes ==
    { <<{"CFF "}, NoComponents>>, <<{"CFF2"}, NoComponents>>,
      <<{"glyf"}, NoComponents>>, <<{"glyf"}, OneComponent>>,
      <<{"glyf"}, NestedComponents>>, <<{"CFF ", "glyf"}, NoComponents>> }

Fonts ==
    {[cmap |-> c, tables |-> s[1], components |-> s[2]] : c \in Cmaps, s \in Shapes}

\* request.files.get("font_file")
Uploads == {None} \cup {Some(f) : f \in Fonts}

PreviewLimit == 30

ShortStrings == UNION {[1..n -> PreviewChars] : n \in 0..MaxStrLen}

\* Strings at the limit and just over it.
LongStrings ==
    {[i \in 1..n |-> c] : n \in {PreviewLimit, PreviewLimit + 1}, c \in PreviewChars}

\* request.form.get("preview_string")
Forms == {None} \cup {Some(s) : s \in ShortStrings \cup LongStrings}

\* The inputs of the specification that serves requests concurrently.
ConcFont == [cmap |-> << <<32, "g1">> >>, tables |-> {"glyf"}, components |-> NoComponents]

ConcUploads == {None, Some(ConcFont)}

ConcForms == {None, Some(<<32>>), Some(<<127>>)}

FileNames == {"output.ttf"}

\* ------------------------------------------------------------------ state

VARIABLES
    pc,                      \* where each request is in its handler
    request,                 \* the route, request.files and request.form
    exc,                     \* the exception a request raised, if any
    tt_font,                 \* TTFont(binary_font), None before it is parsed
    glyph_names_to_process,
    ufo,
    output,
    response,                \* the list of base64 strings
    reply,                   \* the HTTP response
    files                    \* the working directory of the server

vars ==
    <<pc, request, exc, tt_font, glyph_names_to_process, ufo, output, response,
      reply, files>>

NoRequest ==
    [filter_identifier |-> "", process_for_download |-> FALSE,
     font_file |-> None, preview_string |-> None]

\* Font()
EmptyUfo == [info |-> {}, glyphs |-> <<>>, kerning |-> FALSE]

Init ==
    /\ pc = [r \in Requests |-> "idle"]
    /\ request = [r \in Requests |-> NoRequest]
    /\ exc = [r \in Requests |-> None]
    /\ tt_font = [r \in Requests |-> None]
    /\ glyph_names_to_process = [r \in Requests |-> <<>>]
    /\ ufo = [r \in Requests |-> EmptyUfo]
    /\ output = [r \in Requests |-> <<>>]
    /\ response = [r \in Requests |-> <<>>]
    /\ reply = [r \in Requests |-> None]
    /\ files = [n \in FileNames |-> None]

Goto(r, label) == pc' = [pc EXCEPT ![r] = label]

\* Flask's answer to an exception of a view: the app registers no error
\* handler, so an HTTPException answers with its code and any other
\* exception is an internal server error.
handle_exception(e) ==
    IF e.type = "NotFound"
    THEN [status |-> 404, body |-> None]
    ELSE [status |-> 500, body |-> None]

Raise(r, type, description) ==
    LET e == [type |-> type, description |-> description]
    IN  /\ Goto(r, "responded")
        /\ exc' = [exc EXCEPT ![r] = Some(e)]
        /\ reply' = [reply EXCEPT ![r] = Some(handle_exception(e))]

\* ------------------------------------------------------------ the routes

NewRequest(f, download, up, ps) ==
    [filter_identifier |-> f, process_for_download |-> download,
     font_file |-> up, preview_string |-> ps]

\* POST /filters/<filter_identifier>
filter_preview(r, uploads, forms) ==
    /\ pc[r] = "idle"
    /\ \E f \in FilterIdentifiers, up \in uploads, ps \in forms :
          request' = [request EXCEPT ![r] = NewRequest(f, FALSE, up, ps)]
    /\ Goto(r, "check_filter")
    /\ UNCHANGED <<exc, tt_font, glyph_names_to_process, ufo, output, response,
                   reply, files>>

\* POST /filters/<filter_identifier>/get
filter_download(r, uploads, forms) ==
    /\ pc[r] = "idle"
    /\ \E f \in FilterIdentifiers, up \in uploads, ps \in forms :
          request' = [request EXCEPT ![r] = NewRequest(f, TRUE, up, ps)]
    /\ Goto(r, "check_filter")
    /\ UNCHANGED <<exc, tt_font, glyph_names_to_process, ufo, output, response,
                   reply, files>>

\* ---------------------------------------------------------- process_font

CheckFilter(r) ==
    /\ pc[r] = "check_filter"
    /\ IF request[r].filter_identifier \notin ValidFilters
       THEN Raise(r, "NotFound", "Filter not found")
       ELSE Goto(r, "check_font_file") /\ UNCHANGED <<exc, reply>>
    /\ UNCHANGED <<request, tt_font, glyph_names_to_process, ufo, output, response,
                   files>>

CheckFontFile(r) ==
    /\ pc[r] = "check_font_file"
    /\ IF ~IsSome(request[r].font_file)
       THEN Raise(r, "AssertionError", "Font file is required")
       ELSE Goto(r, "check_preview_string") /\ UNCHANGED <<exc, reply>>
    /\ UNCHANGED <<request, tt_font, glyph_names_to_process, ufo, output, response,
                   files>>

\* Python's truth value of an Optional[str]: None and "" are false.
Truthy(s) == IsSome(s) /\ Len(Get(s)) > 0

\* The limit off by one.
TooLongOffByOne(s) == Len(s) > PreviewLimit + 1

TooLong(s) == Len(s) > PreviewLimit

CheckPreviewString(r) ==
    /\ pc[r] = "check_preview_string"
    /\ LET preview_string == request[r].preview_string
       IN  IF Truthy(preview_string) /\ TooLong(Get(preview_string))
           THEN Raise(r, "AssertionError", "Preview string is too long")
           ELSE Goto(r, "parse") /\ UNCHANGED <<exc, reply>>
    /\ UNCHANGED <<request, tt_font, glyph_names_to_process, ufo, output, response,
                   files>>

ParseFont(r) ==
    /\ pc[r] = "parse"
    /\ tt_font' = [tt_font EXCEPT ![r] = request[r].font_file]
    /\ Goto(r, "select")
    /\ UNCHANGED <<request, exc, glyph_names_to_process, ufo, output, response,
                   reply, files>>

\* tt_font.getBestCmap(): code point -> glyph name
getBestCmap(tt) == tt.cmap

RECURSIVE InvertItems(_, _)
InvertItems(items, acc) ==
    IF items = <<>>
    THEN acc
    ELSE InvertItems(Tail(items), DictSet(acc, Head(items)[2], Head(items)[1]))

\* {v: k for k, v in cmap.items()}: glyph name -> code point, the last code
\* point of a glyph wins.
cmap_reversed(cmap) == InvertItems(cmap, <<>>)

ranges == << <<32, 126>> >>

\* The range taken without its lower end.
is_in_ranges_open(code_point) ==
    \E i \in DOMAIN ranges : ranges[i][1] < code_point /\ code_point <= ranges[i][2]

is_in_ranges(code_point) ==
    \E i \in DOMAIN ranges : ranges[i][1] <= code_point /\ code_point <= ranges[i][2]

\* The download branch: the glyphs of cmap_reversed whose code point is in
\* the ranges, in the order of cmap_reversed.items().
RECURSIVE DownloadSelection(_)
DownloadSelection(items) ==
    IF items = <<>>
    THEN <<>>
    ELSE IF is_in_ranges(Head(items)[2])
         THEN <<Head(items)[1]>> \o DownloadSelection(Tail(items))
         ELSE DownloadSelection(Tail(items))

\* The preview branch: [cmap.get(ord(char), None) for char in set(...)],
\* chars being one iteration order of the set.
PreviewSelection(cmap, chars) ==
    [i \in DOMAIN chars |-> DictGet(cmap, chars[i], NoneName)]

SelectGlyphs(r) ==
    /\ pc[r] = "select"
    /\ LET cmap == getBestCmap(Get(tt_font[r]))
           preview_string == request[r].preview_string
       IN  IF request[r].process_for_download
           THEN /\ glyph_names_to_process' =
                       [glyph_names_to_process EXCEPT ![r] =
                           DownloadSelection(cmap_reversed(cmap))]
                /\ Goto(r, "closure")
                /\ UNCHANGED <<exc, reply>>
           ELSE IF ~IsSome(preview_string)
           THEN \* set(None)
                /\ Raise(r, "TypeError", "'NoneType' object is not iterable")
                /\ UNCHANGED glyph_names_to_process
           ELSE /\ \E chars \in Orderings(Range(Get(preview_string))) :
                       glyph_names_to_process' =
                           [glyph_names_to_process EXCEPT ![r] =
                               PreviewSelection(cmap, chars)]
                /\ Goto(r, "closure")
                /\ UNCHANGED <<exc, reply>>
    /\ UNCHANGED <<request, tt_font, ufo, output, response, files>>

RECURSIVE Reachable(_, _)
Reachable(components, S) ==
    LET T == S \cup UNION {components[g] : g \in S}
    IN  IF T = S THEN S ELSE Reachable(components, T)

\* tools.generic.get_components_in_subsetted_text: the glyphs the given ones
\* refer to as components, directly or through other components, that are
\* not among the given ones already, each once.
get_components_in_subsetted_text(tt, glyph_names) ==
    LET given == Range(glyph_names) \cap Glyphs
        found == Reachable(tt.components, UNION {tt.components[g] : g \in given})
        IsNew(g) == g \in found /\ g \notin Range(glyph_names)
    IN  SelectSeq(GlyphOrder, IsNew)

\* What the helper does with a None among the names is not fixed by the
\* code here: it answers for the glyphs, or the lookup of None fails.
Closure(r) ==
    /\ pc[r] = "closure"
    /\ \/ /\ glyph_names_to_process' =
                 [glyph_names_to_process EXCEPT ![r] =
                     @ \o get_components_in_subsetted_text(Get(tt_font[r]), @)]
          /\ Goto(r, "assemble")
          /\ UNCHANGED <<exc, reply>>
       \/ /\ NoneName \in Range(glyph_names_to_process[r])
          /\ Raise(r, "KeyError", NoneName)
          /\ UNCHANGED glyph_names_to_process
    /\ UNCHANGED <<request, tt_font, ufo, output, response, files>>

\* The if/elif chain over the outline tables of the source font.
OutlineExtractor(tt) ==
    IF "CFF " \in tt.tables THEN "extractCFFGlyph"
    ELSE IF "CFF2" \in tt.tables THEN "extractCFF2Glyph"
    ELSE IF "glyf" \in tt.tables THEN "extractGlyfGlyph"
    ELSE "none"

\* The loop body with the extraction outside the test of the filter.
NewGlyphAlwaysExtracted(tt, filter_identifier, glyph_name) ==
    LET reversed == cmap_reversed(getBestCmap(tt))
    IN  [unicode |-> IF glyph_name \in Keys(reversed)
                     THEN Some(Lookup(reversed, glyph_name))
                     ELSE None,
         width |-> IF filter_identifier \in {"extruder"}
                   THEN Some(hmtx[glyph_name])
                   ELSE None,
         outline |-> OutlineExtractor(tt)]

\* The body of the loop over glyph_names_to_process: the glyph the UFO gets.
NewGlyph(tt, filter_identifier, glyph_name) ==
    LET reversed == cmap_reversed(getBestCmap(tt))
    IN  [unicode |-> IF glyph_name \in Keys(reversed)
                     THEN Some(Lookup(reversed, glyph_name))
                     ELSE None,
         width |-> IF filter_identifier \in {"extruder"}
                   THEN Some(hmtx[glyph_name])
                   ELSE None,
         outline |-> IF filter_identifier \in {"extruder"}
                     THEN OutlineExtractor(tt)
                     ELSE "none"]

\* ufo.newGlyph(name) replaces a glyph of that name.
RECURSIVE AssembleGlyphs(_, _, _, _)
AssembleGlyphs(tt, filter_identifier, glyph_names, glyphs) ==
    IF glyph_names = <<>>
    THEN glyphs
    ELSE AssembleGlyphs(tt, filter_identifier, Tail(glyph_names),
            (Head(glyph_names) :> NewGlyph(tt, filter_identifier, Head(glyph_names)))
                @@ glyphs)

Assemble(r) ==
    /\ pc[r] = "assemble"
    /\ LET filter_identifier == request[r].filter_identifier
           names == glyph_names_to_process[r]
       IN  IF filter_identifier \in {"extruder"} /\ \E g \in Range(names) : g \notin Glyphs
           THEN \* tt_font["hmtx"].metrics[None]
                /\ Raise(r, "KeyError", NoneName)
                /\ UNCHANGED ufo
           ELSE /\ ufo' = [ufo EXCEPT ![r] =
                       [info |-> {"unitsPerEm"} \cup
                                 (IF request[r].process_for_download
                                  THEN {"familyName", "styleName"}
                                  ELSE {}),
                        glyphs |-> AssembleGlyphs(Get(tt_font[r]), filter_identifier,
                                                  names, <<>>),
                        kerning |-> FALSE]]
                /\ Goto(r, "dispatch")
                /\ UNCHANGED <<exc, reply>>
    /\ UNCHANGED <<request, tt_font, glyph_names_to_process, output, response, files>>

\* A font a filter returns, with the suffix its names were given.
OutputFont(variant) == [variant |-> variant, name_suffix |-> None]

\* rotorizer.rotorize: the underlay and the overlay, in this order.
rotorize == <<OutputFont("underlay"), OutputFont("overlay")>>

\* The output list of each branch of the dispatch.
FilterOutput(filter_identifier) ==
    IF filter_identifier = "rasterizer" THEN <<OutputFont("rasterized")>>
    ELSE IF filter_identifier = "rotorizer" THEN rotorize
    ELSE <<OutputFont("extruded")>>

\* The filters and int(request.form.get(...)) are free to fail.
Dispatch(r) ==
    /\ pc[r] = "dispatch"
    /\ \/ /\ output' = [output EXCEPT ![r] = FilterOutput(request[r].filter_identifier)]
          /\ ufo' = [ufo EXCEPT ![r] =
                        IF request[r].filter_identifier = "extruder"
                        THEN [@ EXCEPT !.info = @ \cup {"openTypeInfo"},
                                       !.kerning = TRUE]
                        ELSE @]
          /\ Goto(r, "rename")
          /\ UNCHANGED <<exc, reply>>
       \/ /\ \E type \in {"ValueError", "FilterError"} : Raise(r, type, "")
          /\ UNCHANGED <<ufo, output>>
    /\ UNCHANGED <<request, tt_font, glyph_names_to_process, response, files>>

suffix_name_map ==
    [rotorizer |-> <<"Rotorized Underlay", "Rotorized Overlay">>,
     rasterizer |-> <<"Rasterized">>,
     extruder |-> <<"Extruded">>]

\* tools.generic.rename_name_ufo and rename_name_ttfont: the suffix goes to
\* the names of the font.
rename_name_ufo(font, suffix) == [font EXCEPT !.name_suffix = Some(suffix)]

rename_name_ttfont(font, suffix) == [font EXCEPT !.name_suffix = Some(suffix)]

\* The loop with no branch for a font that is not a defcon Font.
RenameUfoOnly(filter_identifier, fonts, is_ufo) ==
    [f \in DOMAIN fonts |->
        LET suffix == suffix_name_map[filter_identifier][f]
        IN  IF suffix # "" /\ is_ufo[f]
            THEN rename_name_ufo(fonts[f], suffix)
            ELSE fonts[f]]

\* The loop over enumerate(output); is_ufo[f] is isinstance(font, Font).
RenameAll(filter_identifier, fonts, is_ufo) ==
    [f \in DOMAIN fonts |->
        LET suffix == suffix_name_map[filter_identifier][f]
        IN  IF suffix # ""
            THEN IF is_ufo[f]
                 THEN rename_name_ufo(fonts[f], suffix)
                 ELSE rename_name_ttfont(fonts[f], suffix)
            ELSE fonts[f]]

\* Which class a filter's fonts are of is the filter's business.
Rename(r) ==
    /\ pc[r] = "rename"
    /\ \E is_ufo \in [DOMAIN output[r] -> BOOLEAN] :
          output' = [output EXCEPT ![r] =
                        RenameAll(request[r].filter_identifier, @, is_ufo)]
    /\ Goto(r, "encode")
    /\ UNCHANGED <<request, exc, tt_font, glyph_names_to_process, ufo, response,
                   reply, files>>

\* tools.generic.fonts_to_base64: one base64 string per font, in order.
fonts_to_base64(fonts) ==
    [f \in DOMAIN fonts |->
        [payload |-> "font", variant |-> fonts[f].variant,
         name_suffix |-> fonts[f].name_suffix]]

\* base64.b64encode(font_file).decode('ascii')
UploadEntry == [payload |-> "upload", variant |-> "original", name_suffix |-> None]

EncodeResponse(filter_identifier, fonts) ==
    IF filter_identifier \in {"extruder"}
    THEN Append(fonts_to_base64(fonts), UploadEntry)
    ELSE fonts_to_base64(fonts)

Encode(r) ==
    /\ pc[r] = "encode"
    /\ response' = [response EXCEPT ![r] =
                       EncodeResponse(request[r].filter_identifier, output[r])]
    /\ Goto(r, "save")
    /\ UNCHANGED <<request, exc, tt_font, glyph_names_to_process, ufo, output,
                   reply, files>>

\* collect(); output[0].save("output.ttf")
SavedName == "output.ttf"

Save(r) ==
    /\ pc[r] = "save"
    /\ files' = [files EXCEPT ![SavedName] = Some([writer |-> r, font |-> output[r][1]])]
    /\ Goto(r, "respond")
    /\ UNCHANGED <<request, exc, tt_font, glyph_names_to_process, ufo, output,
                   response, reply>>

\* The test of the comprehension the wrong way round.
mapped_glyphs(cmap, preview_string) ==
    LET IsMapped(character) == character \in Keys(cmap)
    IN  SelectSeq(preview_string, IsMapped)

\* [character for character in preview_string
\*  if cmap.get(ord(character), None) is None]
missing_glyphs(cmap, preview_string) ==
    LET IsMissing(character) == character \notin Keys(cmap)
    IN  SelectSeq(preview_string, IsMissing)

\* ", ".join(characters)
RECURSIVE Join(_)
Join(characters) ==
    IF Len(characters) <= 1
    THEN characters
    ELSE <<Head(characters), 44, 32>> \o Join(Tail(characters))

Warnings(missing) ==
    IF missing # <<>>
    THEN << [prefix |-> "Your font is missing these characters: ",
             characters |-> Join(missing)] >>
    ELSE <<>>

\* "".join([char for char in preview_string if char not in missing_glyphs])
EchoedString(preview_string, missing) ==
    LET IsKept(char) == char \notin Range(missing)
    IN  SelectSeq(preview_string, IsKept)

Respond(r) ==
    /\ pc[r] = "respond"
    /\ LET cmap == getBestCmap(Get(tt_font[r]))
           body ==
               IF request[r].process_for_download
               THEN [fonts |-> response[r], warnings |-> None, preview_string |-> None]
               ELSE LET preview_string == Get(request[r].preview_string)
                        missing == missing_glyphs(cmap, preview_string)
                    IN  [fonts |-> response[r],
                         warnings |-> Some(Warnings(missing)),
                         preview_string |-> Some(EchoedString(preview_string, missing))]
       IN  reply' = [reply EXCEPT ![r] = Some([status |-> 200, body |-> Some(body)])]
    /\ Goto(r, "responded")
    /\ UNCHANGED <<request, exc, tt_font, glyph_names_to_process, ufo, output,
                   response, files>>

\* collect(); return return_value: the request and its objects are gone.
Return(r) ==
    /\ pc[r] = "responded"
    /\ Goto(r, "returned")
    /\ request' = [request EXCEPT ![r] = NoRequest]
    /\ exc' = [exc EXCEPT ![r] = None]
    /\ tt_font' = [tt_font EXCEPT ![r] = None]
    /\ glyph_names_to_process' = [glyph_names_to_process EXCEPT ![r] = <<>>]
    /\ ufo' = [ufo EXCEPT ![r] = EmptyUfo]
    /\ output' = [output EXCEPT ![r] = <<>>]
    /\ response' = [response EXCEPT ![r] = <<>>]
    /\ reply' = [reply EXCEPT ![r] = None]
    /\ UNCHANGED files

RequestStep(r) ==
    \/ CheckFilter(r)
    \/ CheckFontFile(r)
    \/ CheckPreviewString(r)
    \/ ParseFont(r)
    \/ SelectGlyphs(r)
    \/ Closure(r)
    \/ Assemble(r)
    \/ Dispatch(r)
    \/ Rename(r)
    \/ Encode(r)
    \/ Save(r)
    \/ Respond(r)
    \/ Return(r)

Next ==
    \E r \in Solo :
        \/ filter_preview(r, Uploads, Forms)
        \/ filter_download(r, Uploads, Forms)
        \/ RequestStep(r)

Spec == Init /\ [][Next]_vars

NextConc ==
    \E r \in Requests :
        \/ filter_preview(r, ConcUploads, ConcForms)
        \/ filter_download(r, ConcUploads, ConcForms)
        \/ RequestStep(r)

SpecConc == Init /\ [][NextConc]_vars

\* ---------------------------------------------------------------- claims

Active(r) == pc[r] \notin {"idle", "returned"}

Parsed(r) == IsSome(tt_font[r])

Raised(r, type) == IsSome(exc[r]) /\ Get(exc[r]).type = type

Succeeded(r) == pc[r] = "responded" /\ ~IsSome(exc[r]) /\ Get(reply[r]).status = 200

\* C1: the filter identifier is checked first, and the font is parsed only
\* after the three gates: a parsed font means a known identifier, an upload
\* and a preview string of at most 30 characters; a request that ended in
\* the routing error or a validation error never parsed its font; and a
\* request with an unknown identifier ends in the routing error whatever
\* else it lacks.
C1_GatesBeforeParsing ==
    \A r \in Requests :
        /\ Parsed(r) =>
              /\ request[r].filter_identifier \in {"rasterizer", "rotorizer", "extruder"}
              /\ IsSome(request[r].font_file)
              /\ IsSome(request[r].preview_string) =>
                    Len(Get(request[r].preview_string)) <= 30
        /\ (Raised(r, "NotFound") \/ Raised(r, "AssertionError")) => ~Parsed(r)
        /\ ( /\ Active(r)
             /\ pc[r] # "check_filter"
             /\ request[r].filter_identifier \notin {"rasterizer", "rotorizer", "extruder"} )
           => Raised(r, "NotFound")

\* A font is parsed for a request whose preview string is exactly at the limit.
C1_Witness ==
    \E r \in Requests :
        /\ Parsed(r)
        /\ IsSome(request[r].preview_string)
        /\ Len(Get(request[r].preview_string)) = 30

\* C2: an unknown filter identifier answers 404, and a missing font file or
\* a preview string that is too long answers a 4xx status that is neither
\* 404 nor the status of a failure of the filter.
C2_ErrorClasses ==
    \A r \in Requests :
        (pc[r] = "responded" /\ IsSome(exc[r])) =>
            LET status == Get(reply[r]).status
                filter_failure == handle_exception([type |-> "FilterError", description |-> ""])
            IN  /\ Raised(r, "NotFound") => status = 404
                /\ Raised(r, "AssertionError") =>
                      /\ status \in 400..499
                      /\ status # 404
                      /\ status # filter_failure.status

\* C3: a preview request whose preview string is missing or empty is
\* rejected like one whose preview string is too long: its font is never
\* parsed, it never selects glyphs and it never answers 200.
C3_PreviewStringRequired ==
    \A r \in Requests :
        ( /\ Active(r)
          /\ ~request[r].process_for_download
          /\ ~Truthy(request[r].preview_string) )
        => /\ ~Parsed(r)
           /\ pc[r] \notin {"select", "closure", "assemble", "dispatch", "rename",
                            "encode", "save", "respond"}
           /\ ~Succeeded(r)

\* C4: in preview mode the selection made from the preview string holds the
\* glyph of every mapped character, and every entry of it is a glyph of the
\* source font: an unmapped character leaves no entry.
C4_SelectionHoldsGlyphs ==
    \A r \in Requests :
        (pc[r] = "closure" /\ ~request[r].process_for_download) =>
            LET cmap == Get(request[r].font_file).cmap
                chars == Range(Get(request[r].preview_string))
            IN  /\ \A c \in chars :
                      c \in Keys(cmap) =>
                          Lookup(cmap, c) \in Range(glyph_names_to_process[r])
                /\ \A i \in DOMAIN glyph_names_to_process[r] :
                      glyph_names_to_process[r][i] \in Glyphs

\* C5: a request never writes a file that holds what another request, still
\* being served, wrote.
C5_NoSharedWrites ==
    [][\A n \in FileNames :
          (files'[n] # files[n] /\ IsSome(files[n])) =>
              \/ ~Active(Get(files[n]).writer)
              \/ Get(files'[n]).writer = Get(files[n]).writer]_vars

\* C6 as stated: for every filter every glyph of the closed selection has its
\* outline extracted, and only the width is kept to the extruder.
C6_OutlineForEveryFilter ==
    \A r \in Requests :
        pc[r] = "dispatch" =>
            \A g \in Range(glyph_names_to_process[r]) \cap Glyphs :
                /\ ufo[r].glyphs[g].outline # "none"
                /\ IsSome(ufo[r].glyphs[g].width)
                      <=> request[r].filter_identifier = "extruder"

\* C6, amended: the assembled font has one glyph per name of the closed
\* selection; for the extruder each has the advance width of the source font
\* and the outline of its outline table, CFF before CFF2 before glyf, and
\* for the rasterizer and the rotorizer each has neither outline nor width.
C6_ExtractionOnlyForExtruder ==
    \A r \in Requests :
        pc[r] = "dispatch" =>
            /\ DOMAIN ufo[r].glyphs = Range(glyph_names_to_process[r])
            /\ \A g \in DOMAIN ufo[r].glyphs :
                  LET tables == Get(request[r].font_file).tables
                      glyph == ufo[r].glyphs[g]
                  IN  IF request[r].filter_identifier = "extruder"
                      THEN /\ glyph.width = Some(hmtx[g])
                           /\ "CFF " \in tables => glyph.outline = "extractCFFGlyph"
                           /\ ("CFF " \notin tables /\ "CFF2" \in tables)
                                 => glyph.outline = "extractCFF2Glyph"
                           /\ (tables = {"glyf"}) => glyph.outline = "extractGlyfGlyph"
                      ELSE /\ glyph.width = None
                           /\ glyph.outline = "none"

\* A rasterizer request has assembled a font with a glyph in it, and an
\* extruder request would have drawn that glyph.
C6_Witness ==
    \E r \in Requests :
        /\ pc[r] = "dispatch"
        /\ request[r].filter_identifier = "rasterizer"
        /\ "g1" \in DOMAIN ufo[r].glyphs
        /\ ufo[r].glyphs["g1"].outline = "none"

\* C7: after the components are appended, no glyph of the font is twice in
\* the list.
C7_NoDuplicateGlyphs ==
    \A r \in Requests :
        pc[r] = "assemble" =>
            \A i, j \in DOMAIN glyph_names_to_process[r] :
                (i # j /\ glyph_names_to_process[r][i] \in Glyphs) =>
                    glyph_names_to_process[r][i] # glyph_names_to_process[r][j]

\* C8: in download mode the selection is, without repetition, exactly the
\* glyphs whose code point in the reverse character map (the last code point
\* the character map gives the glyph) is in 32..126, whatever preview string
\* came with the request.
C8_DownloadSelection ==
    \A r \in Requests :
        (pc[r] = "closure" /\ request[r].process_for_download) =>
            LET cmap == Get(request[r].font_file).cmap
                IsLast(i) == \A j \in DOMAIN cmap : j > i => cmap[j][2] # cmap[i][2]
            IN  /\ Range(glyph_names_to_process[r]) =
                      {cmap[i][2] : i \in {k \in DOMAIN cmap :
                                        IsLast(k) /\ cmap[k][1] \in 32..126}}
                /\ NoDuplicates(glyph_names_to_process[r])

\* A download request that carries a preview string has selected one glyph
\* and left another, mapped off the range, out.
C8_Witness ==
    \E r \in Requests :
        /\ pc[r] = "closure"
        /\ request[r].process_for_download
        /\ IsSome(request[r].preview_string)
        /\ Len(Get(request[r].preview_string)) > 0
        /\ Len(glyph_names_to_process[r]) = 1
        /\ Len(Get(request[r].font_file).cmap) = 2
        /\ \A i \in {1, 2} :
              Get(request[r].font_file).cmap[i][2] = glyph_names_to_process[r][1]
                  <=> Get(request[r].font_file).cmap[i][1] \in {32, 126}

\* C9: a successful preview answers no warning when every character is
\* mapped, and otherwise one warning that names every unmapped character and
\* nothing else; the echoed string is the submitted one without the unmapped
\* characters, the others in their order.
C9_WarningsAndEcho ==
    \A r \in Requests :
        (Succeeded(r) /\ ~request[r].process_for_download) =>
            LET cmap == Get(request[r].font_file).cmap
                submitted == Get(request[r].preview_string)
                unmapped == {c \in Range(submitted) : \A i \in DOMAIN cmap : cmap[i][1] # c}
                IsMapped(c) == c \notin unmapped
                body == Get(Get(reply[r]).body)
                warnings == Get(body.warnings)
            IN  /\ unmapped = {} => warnings = <<>>
                /\ unmapped # {} =>
                      /\ Len(warnings) = 1
                      /\ warnings[1].prefix = "Your font is missing these characters: "
                      /\ unmapped \subseteq Range(warnings[1].characters)
                      /\ Range(warnings[1].characters) \subseteq unmapped \cup {44, 32}
                /\ body.preview_string = Some(SelectSeq(submitted, IsMapped))

\* A preview of a string with a mapped and an unmapped character succeeded.
C9_Witness ==
    \E r \in Requests :
        /\ Succeeded(r)
        /\ ~request[r].process_for_download
        /\ Get(Get(reply[r]).body).preview_string = Some(<<32>>)
        /\ Get(request[r].preview_string) = <<127, 32>>

\* C10: a successful answer holds one font for the rasterizer, the underlay
\* and the overlay for the rotorizer, and the extruded font followed by the
\* upload for the extruder; each output font carries the suffix of its place
\* in the table of its filter, and carries it before it is encoded.
C10_Fonts ==
    \A r \in Requests :
        LET filter_identifier == request[r].filter_identifier
            Entry(variant, suffix) ==
                [payload |-> "font", variant |-> variant, name_suffix |-> Some(suffix)]
        IN  /\ Succeeded(r) =>
                  LET fonts == Get(Get(reply[r]).body).fonts
                  IN  /\ filter_identifier = "rasterizer" =>
                            fonts = <<Entry("rasterized", "Rasterized")>>
                      /\ filter_identifier = "rotorizer" =>
                            fonts = <<Entry("underlay", "Rotorized Underlay"),
                                      Entry("overlay", "Rotorized Overlay")>>
                      /\ filter_identifier = "extruder" =>
                            fonts = <<Entry("extruded", "Extruded"),
                                      [payload |-> "upload", variant |-> "original",
                                       name_suffix |-> None]>>
            /\ pc[r] = "encode" =>
                  \A f \in DOMAIN output[r] :
                      output[r][f].name_suffix =
                          Some(IF filter_identifier = "rotorizer"
                               THEN <<"Rotorized Underlay", "Rotorized Overlay">>[f]
                               ELSE IF filter_identifier = "rasterizer"
                               THEN "Rasterized"
                               ELSE "Extruded")

\* An extruder download has answered with two entries.
C10_Witness ==
    \E r \in Requests :
        /\ Succeeded(r)
        /\ request[r].process_for_download
        /\ request[r].filter_identifier = "extruder"
        /\ Len(Get(Get(reply[r]).body).fonts) = 2


====
